---- MODULE Spec2Model ----
(***************************************************************************)
(* A model of the RAG chatbot: the ingestion pipeline of ingest_pdf.py     *)
(* (document key sanitisation, record construction, upsert into the search *)
(* index, the per-page try/except loop) and the chat front end of app.py   *)
(* (session message history, suggested questions, Clear Chat, retrieval    *)
(* and answer streaming).                                                  *)
(*                                                                         *)
(* A Python str is modelled as a sequence of one-character strings, so     *)
(* that length, position and concatenation are those of the source.        *)
(***************************************************************************)
EXTENDS Integers, Sequences, FiniteSets, TLC

VARIABLES
    \* ---- a single safe_id call (ingest_pdf.py:12-17)
    text,            \* the argument of safe_id
    key,             \* its return value, None before the call
    \* ---- two upload_page calls (ingest_pdf.py:180-208)
    calls,           \* call name -> [doc_name, page_num]
    built,           \* call name -> the documents list the call uploaded
    \* ---- the search index and one ingest_pdf process (ingest_pdf.py:213-242)
    index,           \* the records search_client's index holds
    pc,              \* position of the ingestion process
    doc_name, year,  \* arguments of the running ingest_pdf
    pdf_pages,       \* number of pages of the PDF at pdf_path
    page_images,     \* the list returned by pdf_to_images (page numbers)
    page_idx,        \* position of the for loop in page_images
    detail_text, summary_text,
    documents,       \* the list being built inside upload_page
    log,             \* pages logged as failed in this run
    attempted,       \* pages whose processing was started in this run
    stored,          \* pages whose upload_page returned in this run
    produced,        \* record ids sent by upload_documents in this run
    prev_run,        \* summary of the previous finished run
    n_runs,          \* number of ingest_pdf calls so far
    \* ---- one Streamlit session of app.py
    messages,        \* st.session_state.messages, None when not yet set
    suggested_input, \* st.session_state.suggested_input, None when absent
    cpc,             \* position of the script run
    clicked,         \* the button whose click started this run
    typed,           \* what st.chat_input returns in this run
    user_input,
    contexts,
    full_response,
    arrived,         \* the chunks the answer stream has yielded in this turn
    turn_base,       \* the message list when this run read its input
    dangling,        \* a turn was cut short since the list was last emptied
    \* ---- one retrieve_documents call (app.py:97-122)
    query, top_k, results, docs, rpc

keyVars == <<text, key>>
pairVars == <<calls, built>>
runVars == <<pc, doc_name, year, pdf_pages, page_images, page_idx, detail_text,
             summary_text, documents, log, attempted, stored, produced,
             prev_run, n_runs>>
chatVars == <<messages, suggested_input, cpc, clicked, typed, user_input,
              contexts, full_response, arrived, turn_base, dangling>>
retrVars == <<query, top_k, results, docs, rpc>>
vars == <<keyVars, pairVars, index, runVars, chatVars, retrVars>>

NoValue == "<none>"

\* an optional value that is not a plain string: absent, or present
None == <<>>
Some(v) == <<v>>
The(opt) == opt[1]

\* ------------------------------------------------------------------ bounds
MaxLen == 2
MaxNameLen == 2
MaxPageNum == 2
TwoDigitPage == 12
MaxPages == 2
MaxRuns == 2
MaxMessages == 4
MaxChunks == 2
MaxTopK == 3

\* ----------------------------------------------------------------- strings
RECURSIVE StringsUpTo(_, _)
StringsUpTo(alphabet, n) ==
    IF n = 0 THEN {<<>>}
    ELSE LET shorter == StringsUpTo(alphabet, n - 1)
         IN  shorter \cup {Append(s, c) : s \in shorter, c \in alphabet}

RECURSIVE Join(_)
Join(parts) ==
    IF parts = <<>> THEN <<>> ELSE Head(parts) \o Join(Tail(parts))

DigitChars == <<"0", "1", "2", "3", "4", "5", "6", "7", "8", "9">>

\* str(n) of a non-negative int, as an f-string renders page_num
RECURSIVE Decimal(_)
Decimal(n) ==
    IF n < 10 THEN <<DigitChars[n + 1]>>
    ELSE Append(Decimal(n \div 10), DigitChars[(n % 10) + 1])

\* ------------------------------------------------------------------ safe_id
LowerAZ == {"a", "b", "c", "d", "e", "f", "g", "h", "i", "j", "k", "l", "m",
            "n", "o", "p", "q", "r", "s", "t", "u", "v", "w", "x", "y", "z"}
UpperAZ == {"A", "B", "C", "D", "E", "F", "G", "H", "I", "J", "K", "L", "M",
            "N", "O", "P", "Q", "R", "S", "T", "U", "V", "W", "X", "Y", "Z"}
Digits09 == {"0", "1", "2", "3", "4", "5", "6", "7", "8", "9"}

\* the characters the class [^a-zA-Z0-9_\-=] does NOT match
KeyChars == LowerAZ \cup UpperAZ \cup Digits09 \cup {"_", "-", "="}

\* mutant of safe_id: "=" is missing from the character class
safe_id_no_equals(t) ==
    [i \in 1..Len(t) |-> IF t[i] \in KeyChars \ {"="} THEN t[i] ELSE "_"]

\* re.sub(r"[^a-zA-Z0-9_\-=]", "_", text)
safe_id(t) == [i \in 1..Len(t) |-> IF t[i] \in KeyChars THEN t[i] ELSE "_"]

\* ------------------------------------------------------- records and index
ContentTypes == <<"page_detail", "page_summary">>

ContentTypeChars(ct) ==
    IF ct = "page_detail"
    THEN <<"_", "p", "a", "g", "e", "_", "d", "e", "t", "a", "i", "l">>
    ELSE <<"_", "p", "a", "g", "e", "_", "s", "u", "m", "m", "a", "r", "y">>

PageInfix == <<"_", "p", "a", "g", "e", "_">>

\* mutant of RecordId: the content type is left out of the id
RecordId_no_type(safe_doc_name, page_num, content_type) ==
    safe_doc_name \o PageInfix \o Decimal(page_num)

\* f"{safe_doc_name}_page_{page_num}_{content_type}"
RecordId(safe_doc_name, page_num, content_type) ==
    safe_doc_name \o PageInfix \o Decimal(page_num) \o ContentTypeChars(content_type)

\* create_embedding: the vector is the service's function of the text
create_embedding(content) == <<"embedding", content>>

DefaultSection == "Auto-detected"

\* one element of upload_page's documents list
Document(name, page_num, yr, section, content, content_type) ==
    [id |-> RecordId(safe_id(name), page_num, content_type),
     content |-> content,
     contentVector |-> create_embedding(content),
     doc |-> name,
     page |-> page_num,
     section |-> section,
     year |-> yr,
     content_type |-> content_type]

SeqRange(s) == {s[i] : i \in 1..Len(s)}

\* the element of the batch that ends up stored under each key of the batch:
\* a later element wins over an earlier one with the same key
BatchRecords(batch) ==
    {batch[j] : j \in {k \in 1..Len(batch) :
                         \A m \in (k + 1)..Len(batch) : batch[m].id # batch[k].id}}

\* mutant: upload inserts and never replaces the record of the same key
upload_documents_inserting(idx, batch) == idx \cup SeqRange(batch)

\* search_client.upload_documents on the index (a set of records, at most one
\* per key): insert, or replace the record that has the same key
upload_documents(idx, batch) ==
    {r \in idx : \A j \in 1..Len(batch) : batch[j].id # r.id} \cup BatchRecords(batch)

IndexIds(idx) == {r.id : r \in idx}

\* mutant: the second record is built from the detail text and type again
PageDocuments_detail_twice(name, page_num, yr, detail, summary) ==
    <<Document(name, page_num, yr, DefaultSection, detail, ContentTypes[1]),
      Document(name, page_num, yr, DefaultSection, detail, ContentTypes[1])>>

\* the documents list upload_page builds (ingest_pdf.py:188-205)
PageDocuments(name, page_num, yr, detail, summary) ==
    <<Document(name, page_num, yr, DefaultSection, detail, ContentTypes[1]),
      Document(name, page_num, yr, DefaultSection, summary, ContentTypes[2])>>

\* ------------------------------------------------------------ idle values
KeyIdle == text = <<>> /\ key = None
PairIdle == calls = <<>> /\ built = <<>>
RunIdle ==
    /\ pc = "off" /\ doc_name = <<>> /\ year = NoValue /\ pdf_pages = 0
    /\ page_images = <<>> /\ page_idx = 0
    /\ detail_text = NoValue /\ summary_text = NoValue /\ documents = <<>>
    /\ log = <<>> /\ attempted = <<>> /\ stored = {} /\ produced = {}
    /\ prev_run = None /\ n_runs = 0
ChatIdle ==
    /\ messages = None /\ suggested_input = None /\ cpc = "off"
    /\ clicked = NoValue /\ typed = <<>> /\ user_input = <<>>
    /\ contexts = <<>> /\ full_response = <<>> /\ arrived = <<>>
    /\ turn_base = None /\ dangling = FALSE
RetrIdle ==
    /\ query = NoValue /\ top_k = 0 /\ results = <<>> /\ docs = <<>> /\ rpc = "off"

\* ------------------------------------------- a safe_id call on any string
TextAlphabet == {"a", "Z", "7", "_", "-", "=", " ", ".", "/"}
Texts == StringsUpTo(TextAlphabet, MaxLen)

InitSafeId ==
    /\ text \in Texts /\ key = None
    /\ PairIdle /\ index = {} /\ RunIdle /\ ChatIdle /\ RetrIdle

SafeIdCall ==
    /\ key = None
    /\ key' = Some(safe_id(text))
    /\ UNCHANGED <<text, pairVars, index, runVars, chatVars, retrVars>>

SafeIdNewText ==
    /\ key # None
    /\ text' \in Texts
    /\ key' = None
    /\ UNCHANGED <<pairVars, index, runVars, chatVars, retrVars>>

NextSafeId == SafeIdCall \/ SafeIdNewText
SpecSafeId == InitSafeId /\ [][NextSafeId]_vars

\* ------------------------------------- two upload_page calls on one index
NameAlphabet == {"a", " ", "."}
S_a_page_1 == <<"a">> \o PageInfix \o <<"1">>
TrickyNames ==
    {S_a_page_1,
     <<"a">> \o PageInfix \o <<"1", "2">>,
     <<"a">> \o PageInfix \o <<"1">> \o ContentTypeChars("page_detail"),
     <<"a">> \o PageInfix \o <<"1">> \o PageInfix \o <<"1">>,
     <<"a", "_", "p", "a", "g", "e">>}
DocNames == (StringsUpTo(NameAlphabet, MaxNameLen) \ {<<>>}) \cup TrickyNames
PageNums == (1..MaxPageNum) \cup {TwoDigitPage}
CallNames == {"A", "B"}
KeyYear == "FY24"

InitKey ==
    /\ calls \in [CallNames -> [doc_name : DocNames, page_num : PageNums]]
    /\ built = [c \in CallNames |-> <<>>]
    /\ index = {}
    /\ KeyIdle /\ RunIdle /\ ChatIdle /\ RetrIdle

\* upload_page(doc_name, page_num, year, detail_text, summary_text), with
\* every embedding call and the upload succeeding
UploadPageCall(c) ==
    /\ built[c] = <<>>
    /\ LET batch == PageDocuments(calls[c].doc_name, calls[c].page_num, KeyYear,
                                  "detail", "summary")
       IN  /\ index' = upload_documents(index, batch)
           /\ built' = [built EXCEPT ![c] = batch]
    /\ UNCHANGED <<calls, keyVars, runVars, chatVars, retrVars>>

NextKey == \E c \in CallNames : UploadPageCall(c)
SpecKey == InitKey /\ [][NextKey]_vars

\* --------------------------------------------------- ingest_pdf on an index
IngestDocs == {<<"a", " ", "b">>, <<"a", ".", "b">>}
Years == {"FY24", "FY25"}
DetailTexts == {"D1"}
SummaryTexts == {"S1"}

\* the statements inside the try block of ingest_pdf, in order
TryStages == <<"convert_to_jpeg", "extract_page_detail", "generate_page_summary",
               "embed_detail", "embed_summary", "upload_documents">>
BeforeUpload == {TryStages[i] : i \in 1..(Len(TryStages) - 1)}

CurrentPage == page_images[page_idx]

InitIngest ==
    /\ index = {}
    /\ RunIdle
    /\ KeyIdle /\ PairIdle /\ ChatIdle /\ RetrIdle

notRun == <<keyVars, pairVars, chatVars, retrVars>>

\* what a finished run leaves behind for the comparison with the next one
RunSummary ==
    [doc |-> doc_name, pages |-> pdf_pages,
     ok |-> (log = <<>> /\ stored = SeqRange(page_images)),
     produced |-> produced, ids |-> IndexIds(index), count |-> Cardinality(index)]

\* ingest_pdf(pdf_path, doc_name, year) is called (ingest_pdf.py:213-214)
IngestPdfCall(d, n, y) ==
    /\ pc \in {"off", "returned", "raised"}
    /\ n_runs < MaxRuns
    /\ n_runs' = n_runs + 1
    /\ prev_run' = IF pc = "returned" THEN Some(RunSummary) ELSE None
    /\ doc_name' = d /\ pdf_pages' = n /\ year' = y
    /\ page_images' = <<>> /\ page_idx' = 0
    /\ detail_text' = NoValue /\ summary_text' = NoValue /\ documents' = <<>>
    /\ log' = <<>> /\ attempted' = <<>> /\ stored' = {} /\ produced' = {}
    /\ pc' = "pdf_to_images"
    /\ UNCHANGED <<index, notRun>>

\* the page numbers of the list pdf_to_images returns (ingest_pdf.py:70-79)
page_list(n) == [i \in 1..n |-> (i - 1) + 1]

\* pdf_to_images returns (ingest_pdf.py:217)
PdfToImages ==
    /\ pc = "pdf_to_images"
    /\ page_images' = page_list(pdf_pages)
    /\ pc' = "for_page"
    /\ UNCHANGED <<index, doc_name, year, pdf_pages, page_idx, detail_text,
                   summary_text, documents, log, attempted, stored, produced,
                   prev_run, n_runs, notRun>>

\* fitz.open, load_page, get_pixmap or save raises: outside the try block, so
\* the exception leaves ingest_pdf (ingest_pdf.py:217)
PdfToImagesRaises ==
    /\ pc = "pdf_to_images"
    /\ pc' = "raised"
    /\ UNCHANGED <<index, doc_name, year, pdf_pages, page_images, page_idx,
                   detail_text, summary_text, documents, log, attempted, stored,
                   produced, prev_run, n_runs, notRun>>

\* the for loop takes the next element (ingest_pdf.py:219-220)
ForNextPage ==
    /\ pc = "for_page"
    /\ page_idx < Len(page_images)
    /\ page_idx' = page_idx + 1
    /\ attempted' = Append(attempted, page_images[page_idx + 1])
    /\ pc' = TryStages[1]
    /\ UNCHANGED <<index, doc_name, year, pdf_pages, page_images, detail_text,
                   summary_text, documents, log, stored, produced, prev_run,
                   n_runs, notRun>>

\* the for loop is exhausted and ingest_pdf returns (ingest_pdf.py:242)
IngestReturns ==
    /\ pc = "for_page"
    /\ page_idx >= Len(page_images)
    /\ pc' = "returned"
    /\ UNCHANGED <<index, doc_name, year, pdf_pages, page_images, page_idx,
                   detail_text, summary_text, documents, log, attempted, stored,
                   produced, prev_run, n_runs, notRun>>

\* convert_to_jpeg and getsize succeed (ingest_pdf.py:223-226)
ConvertToJpeg ==
    /\ pc = "convert_to_jpeg"
    /\ pc' = "extract_page_detail"
    /\ UNCHANGED <<index, doc_name, year, pdf_pages, page_images, page_idx,
                   detail_text, summary_text, documents, log, attempted, stored,
                   produced, prev_run, n_runs, notRun>>

\* extract_page_detail returns the model's text (ingest_pdf.py:228)
ExtractPageDetail ==
    /\ pc = "extract_page_detail"
    /\ detail_text' \in DetailTexts
    /\ pc' = "generate_page_summary"
    /\ UNCHANGED <<index, doc_name, year, pdf_pages, page_images, page_idx,
                   summary_text, documents, log, attempted, stored, produced,
                   prev_run, n_runs, notRun>>

\* generate_page_summary returns; upload_page is entered with an empty
\* documents list (ingest_pdf.py:229-231, 188-190)
GeneratePageSummary ==
    /\ pc = "generate_page_summary"
    /\ summary_text' \in SummaryTexts
    /\ documents' = <<>>
    /\ pc' = "embed_detail"
    /\ UNCHANGED <<index, doc_name, year, pdf_pages, page_images, page_idx,
                   detail_text, log, attempted, stored, produced, prev_run,
                   n_runs, notRun>>

\* one turn of upload_page's loop: the embedding call returns and the record
\* is appended (ingest_pdf.py:192-205)
AppendDocument ==
    documents' = Append(documents,
        PageDocuments(doc_name, CurrentPage, year, detail_text,
                      summary_text)[Len(documents) + 1])

\* mutant: each record is uploaded as soon as it is built
EmbedDetail_uploading ==
    /\ pc = "embed_detail"
    /\ AppendDocument
    /\ index' = upload_documents(index, documents')
    /\ produced' = produced \cup {d.id : d \in SeqRange(documents')}
    /\ pc' = "embed_summary"
    /\ UNCHANGED <<doc_name, year, pdf_pages, page_images, page_idx,
                   detail_text, summary_text, log, attempted, stored,
                   prev_run, n_runs, notRun>>

EmbedDetail ==
    /\ pc = "embed_detail"
    /\ AppendDocument
    /\ pc' = "embed_summary"
    /\ UNCHANGED <<index, doc_name, year, pdf_pages, page_images, page_idx,
                   detail_text, summary_text, log, attempted, stored, produced,
                   prev_run, n_runs, notRun>>

EmbedSummary ==
    /\ pc = "embed_summary"
    /\ AppendDocument
    /\ pc' = "upload_documents"
    /\ UNCHANGED <<index, doc_name, year, pdf_pages, page_images, page_idx,
                   detail_text, summary_text, log, attempted, stored, produced,
                   prev_run, n_runs, notRun>>

\* search_client.upload_documents(documents) returns and upload_page returns
\* (ingest_pdf.py:207-208)
UploadDocuments ==
    /\ pc = "upload_documents"
    /\ index' = upload_documents(index, documents)
    /\ produced' = produced \cup {d.id : d \in SeqRange(documents)}
    /\ stored' = stored \cup {CurrentPage}
    /\ pc' = "for_page"
    /\ UNCHANGED <<doc_name, year, pdf_pages, page_images, page_idx, detail_text,
                   summary_text, documents, log, attempted, prev_run, n_runs,
                   notRun>>

\* mutant: the except clause re-raises, which ends ingest_pdf
AfterPageFailure_raising == "raised"

\* where control goes after the except clause logs (ingest_pdf.py:239-240)
AfterPageFailure == "for_page"

\* a statement of the try block before the upload raises; the except clause
\* logs the page (ingest_pdf.py:239-240)
PageFails ==
    /\ pc \in BeforeUpload
    /\ log' = Append(log, CurrentPage)
    /\ pc' = AfterPageFailure
    /\ UNCHANGED <<index, doc_name, year, pdf_pages, page_images, page_idx,
                   detail_text, summary_text, documents, attempted, stored,
                   produced, prev_run, n_runs, notRun>>

\* upload_documents raises. A failure of a single document does not raise (it
\* is reported in the returned results), so an exception is one of the whole
\* request: it was rejected, or it was applied and the response was lost
\* (ingest_pdf.py:207, 239-240)
UploadRaises ==
    /\ pc = "upload_documents"
    /\ \E applied \in BOOLEAN :
         LET part == IF applied THEN documents ELSE <<>>
         IN  /\ index' = upload_documents(index, part)
             /\ produced' = produced \cup {d.id : d \in SeqRange(part)}
    /\ log' = Append(log, CurrentPage)
    /\ pc' = AfterPageFailure
    /\ UNCHANGED <<doc_name, year, pdf_pages, page_images, page_idx, detail_text,
                   summary_text, documents, attempted, stored, prev_run, n_runs,
                   notRun>>

NextIngest ==
    \/ \E d \in IngestDocs, n \in 1..MaxPages, y \in Years : IngestPdfCall(d, n, y)
    \/ PdfToImages
    \/ PdfToImagesRaises
    \/ ForNextPage
    \/ IngestReturns
    \/ ConvertToJpeg
    \/ ExtractPageDetail
    \/ GeneratePageSummary
    \/ EmbedDetail
    \/ EmbedSummary
    \/ UploadDocuments
    \/ PageFails
    \/ UploadRaises
SpecIngest == InitIngest /\ [][NextIngest]_vars

\* ------------------------------------------------- retrieve_documents
SampleDoc == <<"c">>
SampleYear == "FY24"
SamplePage(p) == PageDocuments(SampleDoc, p, SampleYear, "D1", "S1")
\* an index that holds the four records of a two-page document
SampleIndex == upload_documents(upload_documents({}, SamplePage(1)), SamplePage(2))
\* an index that holds the two records of a one-page document
SmallIndex == upload_documents({}, SamplePage(1))

Queries == {"q1", "q2"}

RECURSIVE Rankings(_, _)
\* every list of at most k distinct elements of set
Rankings(set, k) ==
    IF k = 0 \/ set = {} THEN {<<>>}
    ELSE {<<>>} \cup
         UNION {{<<r>> \o rest : rest \in Rankings(set \ {r}, k - 1)} : r \in set}

\* what search_client.search yields for one vector query with "k": k and
\* select=[content, doc, page, content_type]: at most k records of the index,
\* nearest first, each with the selected fields and its score (app.py:100-111)
SearchHit(r, rank) ==
    [content |-> r.content, doc |-> r.doc, page |-> r.page,
     content_type |-> r.content_type, search_score |-> 0 - rank]
SearchResults(idx, k) ==
    {[i \in 1..Len(ranking) |-> SearchHit(ranking[i], i)] :
        ranking \in Rankings(idx, k)}

\* the dict built from one result (app.py:115-120)
ResultDoc(r) ==
    [content |-> r.content, doc |-> r.doc, page |-> r.page,
     content_type |-> r.content_type]

\* mutant: each new dict is put at the front of docs
docs_append_front(ds, r) == <<ResultDoc(r)>> \o ds

\* docs.append({...}) (app.py:115-120)
docs_append(ds, r) == Append(ds, ResultDoc(r))

RECURSIVE retrieve_documents(_)
\* the whole loop of retrieve_documents over the results (app.py:113-122)
retrieve_documents(res) ==
    IF res = <<>> THEN <<>>
    ELSE docs_append(retrieve_documents(SubSeq(res, 1, Len(res) - 1)), res[Len(res)])

InitRetrieve ==
    /\ index = SampleIndex
    /\ RetrIdle
    /\ KeyIdle /\ PairIdle /\ RunIdle /\ ChatIdle

notRetr == <<keyVars, pairVars, index, runVars, chatVars>>

\* retrieve_documents(query, top_k) is called (app.py:97)
RetrieveCall(q, k) ==
    /\ rpc \in {"off", "returned", "raised"}
    /\ query' = q /\ top_k' = k
    /\ results' = <<>> /\ docs' = <<>>
    /\ rpc' = "embed_query"
    /\ UNCHANGED notRetr

\* embed_query returns the vector (app.py:98)
EmbedQuery ==
    /\ rpc = "embed_query"
    /\ rpc' = "search"
    /\ UNCHANGED <<query, top_k, results, docs, notRetr>>

\* search returns the result iterator; docs = [] (app.py:100-113)
Search ==
    /\ rpc = "search"
    /\ results' \in SearchResults(index, top_k)
    /\ docs' = <<>>
    /\ rpc' = "for_r"
    /\ UNCHANGED <<query, top_k, notRetr>>

\* the embedding or the search request raises (app.py:98-111)
RetrieveRaises ==
    /\ rpc \in {"embed_query", "search"}
    /\ rpc' = "raised"
    /\ UNCHANGED <<query, top_k, results, docs, notRetr>>

\* one turn of "for r in results" (app.py:114-120)
ForResult ==
    /\ rpc = "for_r"
    /\ Len(docs) < Len(results)
    /\ docs' = docs_append(docs, results[Len(docs) + 1])
    /\ UNCHANGED <<query, top_k, results, rpc, notRetr>>

\* the iterator is exhausted; return docs (app.py:122)
RetrieveReturns ==
    /\ rpc = "for_r"
    /\ Len(docs) >= Len(results)
    /\ rpc' = "returned"
    /\ UNCHANGED <<query, top_k, results, docs, notRetr>>

NextRetrieve ==
    \/ \E q \in Queries, k \in 1..MaxTopK : RetrieveCall(q, k)
    \/ EmbedQuery
    \/ Search
    \/ RetrieveRaises
    \/ ForResult
    \/ RetrieveReturns
SpecRetrieve == InitRetrieve /\ [][NextRetrieve]_vars

\* ------------------------------------------------ the Streamlit session
\* stand-ins for the two literals of suggested_questions (app.py:21-24)
suggested_questions == <<<<"s", "1">>, <<"s", "2">>>>
TypedQuestions == {<<"t">>}
NoQuestion == <<>>

DefaultTopK == 5

\* a chunk of the answer stream: it may have no choices, a choice without a
\* delta, or a delta whose content is None, "" or a token
Tokens == {<<>>, <<"x">>, <<"y">>}
Chunks ==
    {[has_choices |-> FALSE, has_delta |-> FALSE, content |-> None],
     [has_choices |-> TRUE, has_delta |-> FALSE, content |-> None],
     [has_choices |-> TRUE, has_delta |-> TRUE, content |-> None]}
    \cup {[has_choices |-> TRUE, has_delta |-> TRUE, content |-> Some(t)] : t \in Tokens}

\* chunk.choices[0].delta.content or "" (app.py:209)
TokenOf(chunk) == IF chunk.content = None THEN <<>> ELSE The(chunk.content)

\* mutant: the token is put in front of the text received so far
AddChunk_prepending(response, chunk) ==
    IF chunk.has_choices /\ chunk.has_delta /\ TokenOf(chunk) # <<>>
    THEN TokenOf(chunk) \o response
    ELSE response

\* the body of "for chunk in stream" (app.py:208-211)
AddChunk(response, chunk) ==
    IF chunk.has_choices /\ chunk.has_delta
    THEN IF TokenOf(chunk) # <<>> THEN response \o TokenOf(chunk) ELSE response
    ELSE response

Message(role, content) == [role |-> role, content |-> content]

InitChat ==
    /\ index = SmallIndex
    /\ ChatIdle
    /\ KeyIdle /\ PairIdle /\ RunIdle /\ RetrIdle

notChat == <<keyVars, pairVars, index, runVars, retrVars>>

MessageCount == IF messages = None THEN 0 ELSE Len(The(messages))

\* the ways a user starts a script run: a plain rerun, a click on a suggested
\* question, a click on Clear Chat, or a submitted chat input
UserEvents ==
    {[clicked |-> NoValue, typed |-> NoQuestion]}
    \cup {[clicked |-> b, typed |-> NoQuestion] :
            b \in {"suggested_1", "suggested_2", "clear"}}
    \cup {[clicked |-> NoValue, typed |-> q] : q \in TypedQuestions}

\* Streamlit starts a run of the script for a user event
UserEvent(e) ==
    /\ cpc \in {"off", "run_ended", "run_stopped"}
    /\ e.clicked = "clear" \/ MessageCount + 2 <= MaxMessages
    /\ clicked' = e.clicked /\ typed' = e.typed
    /\ user_input' = NoQuestion /\ contexts' = <<>>
    /\ full_response' = <<>> /\ arrived' = <<>>
    /\ cpc' = "buttons"
    /\ UNCHANGED <<messages, suggested_input, turn_base, dangling, notChat>>

\* the suggested-question buttons (app.py:26-29)
SuggestedButtons ==
    /\ cpc = "buttons"
    /\ suggested_input' =
         IF clicked = "suggested_1" THEN Some(suggested_questions[1])
         ELSE IF clicked = "suggested_2" THEN Some(suggested_questions[2])
         ELSE suggested_input
    /\ cpc' = "sidebar"
    /\ UNCHANGED <<messages, clicked, typed, user_input, contexts, full_response,
                   arrived, turn_base, dangling, notChat>>

\* Clear Chat was clicked: the list is emptied and st.rerun() starts the
\* script again, with no widget reporting an event (app.py:53-55)
ClearChat ==
    /\ cpc = "sidebar"
    /\ clicked = "clear"
    /\ messages' = Some(<<>>)
    /\ dangling' = FALSE
    /\ clicked' = NoValue /\ typed' = NoQuestion
    /\ cpc' = "buttons"
    /\ UNCHANGED <<suggested_input, user_input, contexts, full_response, arrived,
                   turn_base, notChat>>

\* Clear Chat was not clicked (app.py:53)
SidebarPasses ==
    /\ cpc = "sidebar"
    /\ clicked # "clear"
    /\ cpc' = "init_clients"
    /\ UNCHANGED <<messages, suggested_input, clicked, typed, user_input, contexts,
                   full_response, arrived, turn_base, dangling, notChat>>

\* init_clients returns the cached clients (app.py:81)
InitClients ==
    /\ cpc = "init_clients"
    /\ cpc' = "init_messages"
    /\ UNCHANGED <<messages, suggested_input, clicked, typed, user_input, contexts,
                   full_response, arrived, turn_base, dangling, notChat>>

\* a client constructor raises and the run stops there (app.py:66-81)
InitClientsRaises ==
    /\ cpc = "init_clients"
    /\ cpc' = "run_stopped"
    /\ UNCHANGED <<messages, suggested_input, clicked, typed, user_input, contexts,
                   full_response, arrived, turn_base, dangling, notChat>>

\* mutant: the list is set to [] on every run
messages_after_init_always(m) == Some(<<>>)

\* if "messages" not in st.session_state: ... = [] (app.py:173-174)
messages_after_init(m) == IF m = None THEN Some(<<>>) ELSE m

InitMessages ==
    /\ cpc = "init_messages"
    /\ messages' = messages_after_init(messages)
    /\ cpc' = "read_input"
    /\ UNCHANGED <<suggested_input, clicked, typed, user_input, contexts,
                   full_response, arrived, turn_base, dangling, notChat>>

\* mutant: the suggested question is read and left in the session state
suggested_after_read_kept(pending) == pending

\* st.session_state.pop("suggested_input") (app.py:185)
suggested_after_read(pending) == None

\* chat_input, then the pending suggested question if there is one
\* (app.py:182-185)
ReadInput ==
    /\ cpc = "read_input"
    /\ user_input' = IF suggested_input # None THEN The(suggested_input) ELSE typed
    /\ suggested_input' =
         IF suggested_input # None THEN suggested_after_read(suggested_input)
         ELSE suggested_input
    /\ turn_base' = messages
    /\ cpc' = "if_input"
    /\ UNCHANGED <<messages, clicked, typed, contexts, full_response, arrived,
                   dangling, notChat>>

\* user_input is None: the script ends (app.py:187)
NoInput ==
    /\ cpc = "if_input"
    /\ user_input = NoQuestion
    /\ cpc' = "run_ended"
    /\ UNCHANGED <<messages, suggested_input, clicked, typed, user_input, contexts,
                   full_response, arrived, turn_base, dangling, notChat>>

\* the user message is stored and shown (app.py:187-194)
StoreUser ==
    /\ cpc = "if_input"
    /\ user_input # NoQuestion
    /\ messages' = Some(Append(The(messages), Message("user", user_input)))
    /\ cpc' = "retrieve"
    /\ UNCHANGED <<suggested_input, clicked, typed, user_input, contexts,
                   full_response, arrived, turn_base, dangling, notChat>>

\* contexts = retrieve_documents(user_input) (app.py:197-198)
Retrieve ==
    /\ cpc = "retrieve"
    /\ \E res \in SearchResults(index, DefaultTopK) :
         contexts' = retrieve_documents(res)
    /\ cpc' = "open_stream"
    /\ UNCHANGED <<messages, suggested_input, clicked, typed, user_input,
                   full_response, arrived, turn_base, dangling, notChat>>

\* full_response = ""; the prompt built from contexts is sent and the stream
\* is returned (app.py:201-205, 127-168)
OpenStream ==
    /\ cpc = "open_stream"
    /\ full_response' = <<>>
    /\ arrived' = <<>>
    /\ contexts' = <<>>
    /\ cpc' = "stream"
    /\ UNCHANGED <<messages, suggested_input, clicked, typed, user_input,
                   turn_base, dangling, notChat>>

\* the stream yields a chunk (app.py:207-212)
StreamChunk ==
    /\ cpc = "stream"
    /\ Len(arrived) < MaxChunks
    /\ \E chunk \in Chunks :
         /\ arrived' = Append(arrived, TokenOf(chunk))
         /\ full_response' = AddChunk(full_response, chunk)
    /\ UNCHANGED <<messages, suggested_input, cpc, clicked, typed, user_input,
                   contexts, turn_base, dangling, notChat>>

\* the stream ends and the assistant message is stored (app.py:215-217)
StoreAssistant ==
    /\ cpc = "stream"
    /\ messages' = Some(Append(The(messages), Message("assistant", full_response)))
    /\ cpc' = "run_ended"
    /\ UNCHANGED <<suggested_input, clicked, typed, user_input, contexts,
                   full_response, arrived, turn_base, dangling, notChat>>

\* the turn does not reach line 215: retrieval, the completion request or the
\* stream raises, or Streamlit stops the run because the user acted again
TurnCutShort ==
    /\ cpc \in {"retrieve", "open_stream", "stream"}
    /\ dangling' = TRUE
    /\ cpc' = "run_stopped"
    /\ UNCHANGED <<messages, suggested_input, clicked, typed, user_input, contexts,
                   full_response, arrived, turn_base, notChat>>

NextChat ==
    \/ \E e \in UserEvents : UserEvent(e)
    \/ SuggestedButtons
    \/ ClearChat
    \/ SidebarPasses
    \/ InitClients
    \/ InitClientsRaises
    \/ InitMessages
    \/ ReadInput
    \/ NoInput
    \/ StoreUser
    \/ Retrieve
    \/ OpenStream
    \/ StreamChunk
    \/ StoreAssistant
    \/ TurnCutShort
SpecChat == InitChat /\ [][NextChat]_vars

\* ================================================================== claims

\* C1: safe_id returns a string of the same length whose every character is
\* a letter, a digit, "_", "-" or "="; a character already in that set is
\* kept in place and every other character becomes exactly one "_".
C1_SafeIdShape ==
    key # None =>
        LET k == The(key)
        IN  /\ Len(k) = Len(text)
            /\ \A i \in 1..Len(k) :
                /\ k[i] \in LowerAZ \cup UpperAZ \cup Digits09 \cup {"_", "-", "="}
                /\ text[i] \in KeyChars => k[i] = text[i]
                /\ text[i] \notin KeyChars => k[i] = "_"

C1_Witness ==
    /\ key # None
    /\ Len(text) = 2
    /\ text[1] = "=" /\ text[2] \notin KeyChars

\* two names that are equal once their disallowed characters are removed
StripDisallowed(t) == SelectSeq(t, LAMBDA c : c \in KeyChars)
DifferOnlyInDisallowed(a, b) == a # b /\ StripDisallowed(a) = StripDisallowed(b)

\* C2: two distinct document names that differ only in disallowed characters
\* get different keys from safe_id, hence different record ids in upload_page
\* for the same page number and content type.
C2_NoCollision ==
    ( /\ ~PairIdle
      /\ \A c \in CallNames : built[c] # <<>>
      /\ DifferOnlyInDisallowed(calls["A"].doc_name, calls["B"].doc_name)
      /\ calls["A"].page_num = calls["B"].page_num )
    => \A i \in 1..Len(built["A"]) : built["A"][i].id # built["B"][i].id

\* the composite key of a stored record
Triple(r) == <<safe_id(r.doc), r.page, r.content_type>>

\* C7: the record id upload_page builds is an injective function of
\* (sanitised document name, page number, content type), also for sanitised
\* names that contain "_page_" and digits, and the index never holds two
\* records with the same triple.
C7_KeyInjective ==
    /\ \A c1 \in DOMAIN built, c2 \in DOMAIN built :
         \A r1 \in SeqRange(built[c1]), r2 \in SeqRange(built[c2]) :
             Triple(r1) # Triple(r2) => r1.id # r2.id
    /\ \A r1 \in index, r2 \in index : r1 # r2 => Triple(r1) # Triple(r2)

C7_Witness ==
    /\ ~PairIdle
    /\ calls["A"].doc_name = <<"a">>
    /\ calls["B"].doc_name = S_a_page_1
    /\ calls["A"].page_num = 1 /\ calls["B"].page_num = 1
    /\ Cardinality(index) = 2 * Cardinality(CallNames)

\* ingest_pdf has returned with every page stored, and so had the run before
\* it, on the same document name and the same PDF
BothRunsSucceeded ==
    /\ pc = "returned"
    /\ prev_run # None
    /\ The(prev_run).doc = doc_name
    /\ The(prev_run).pages = pdf_pages
    /\ The(prev_run).ok
    /\ RunSummary.ok

\* C3: a second ingest_pdf of the same unchanged PDF under the same document
\* name, every page succeeding in both runs, sends exactly the record ids of
\* the first run and leaves the index with the same ids and the same number
\* of records as after the first run.
C3_Idempotent ==
    BothRunsSucceeded =>
        /\ produced = The(prev_run).produced
        /\ IndexIds(index) = The(prev_run).ids
        /\ Cardinality(index) = The(prev_run).count

C3_Witness ==
    /\ BothRunsSucceeded
    /\ pdf_pages = 2
    /\ \E r \in index : r.year = "FY25"

PageRecords(p) == {r \in index : r.page = p /\ r.doc = doc_name}

TwoRecordsPerStoredPage ==
    \A p \in stored :
        /\ Cardinality(PageRecords(p)) = 2
        /\ {r.content_type : r \in PageRecords(p)} = SeqRange(ContentTypes)
        /\ \A r \in PageRecords(p) : r.year = year

\* C8: every page processed successfully has exactly two records in the
\* index, one page_detail and one page_summary, both with the original
\* document name, the page number and the year of the run; and no step
\* removes a record id from the index.
C8_TwoRecordsNeverDeleted ==
    [][TwoRecordsPerStoredPage' /\ IndexIds(index) \subseteq IndexIds(index')]_vars

C8_Witness ==
    /\ stored = {1, 2}
    /\ Cardinality(index) = 4
    /\ n_runs = 2

\* the two record ids of the page being processed
CurrentPageIds == {RecordId(safe_id(doc_name), CurrentPage, ContentTypes[i]) :
                     i \in 1..Len(ContentTypes)}

\* C9: while page p is between convert_to_jpeg and the second embedding call
\* no record of p has been sent in this run, and a step taken from there (a
\* stage returning, or raising into the except clause) leaves the index and
\* the records of all other pages as they were.
C9_AllOrNothingBeforeUpload ==
    [][ /\ pc \in BeforeUpload => (index' = index /\ produced' = produced)
        /\ pc' \in BeforeUpload => (CurrentPageIds' \cap produced' = {}) ]_vars

C9_Witness ==
    /\ pc = "for_page"
    /\ log = <<1>>
    /\ Len(documents) = 1
    /\ index = {} /\ produced = {}

\* C6: retrieve_documents returns at most top_k candidates, in the order the
\* search service yielded them: element i of the returned list is built from
\* result i, none reordered, dropped or duplicated.
C6_TopKInOrder ==
    /\ Len(docs) <= top_k
    /\ Len(docs) <= Len(results)
    /\ \A i \in 1..Len(docs) :
         /\ docs[i].content = results[i].content
         /\ docs[i].doc = results[i].doc
         /\ docs[i].page = results[i].page
         /\ docs[i].content_type = results[i].content_type
    /\ rpc = "returned" => Len(docs) = Len(results)

C6_Witness ==
    /\ rpc = "returned"
    /\ top_k = 2
    /\ Len(docs) = 2
    /\ docs[1] # docs[2]

\* the script is at the Clear Chat button and the button reports a click
IsPrefix(a, b) == Len(a) <= Len(b) /\ \A i \in 1..Len(a) : a[i] = b[i]
ClearChatClicked == cpc = "sidebar" /\ clicked = "clear"

\* C4: a step that is not the Clear Chat handler keeps every stored message
\* at its position with its role and content; the list is created empty, and
\* only when the session has none; the Clear Chat handler leaves it empty.
C4_HistoryKeptUntilClear ==
    [][ /\ ClearChatClicked => messages' = Some(<<>>)
        /\ (~ClearChatClicked /\ messages # None) =>
              (messages' # None /\ IsPrefix(The(messages), The(messages')))
        /\ (messages = None /\ messages' # None) => messages' = Some(<<>>) ]_vars

\* the list was emptied by Clear Chat after a turn that had read a history
\* of at least two messages
C4_Witness ==
    /\ cpc = "buttons" /\ clicked = NoValue
    /\ messages = Some(<<>>)
    /\ turn_base # None
    /\ Len(The(turn_base)) >= 2

\* the state part of the turn property
NonEmptyTokens(chunks) == SelectSeq(chunks, LAMBDA t : t # <<>>)

TurnCompleted == cpc = "run_ended" /\ user_input # NoQuestion

InTurn == cpc \in {"retrieve", "open_stream", "stream"}

Alternates(ms) ==
    \A i \in 1..Len(ms) :
        ms[i].role = IF i % 2 = 1 THEN "user" ELSE "assistant"

C10_State ==
    /\ TurnCompleted =>
         The(messages) = The(turn_base) \o
             <<Message("user", user_input),
               Message("assistant", Join(NonEmptyTokens(arrived)))>>
    /\ (~dangling /\ messages # None) =>
         /\ Alternates(The(messages))
         /\ Len(The(messages)) % 2 = IF InTurn THEN 1 ELSE 0
    /\ (InTurn \/ cpc = "if_input") => suggested_input = None

\* C10: a turn that runs to completion leaves the history it started from
\* followed by {user, question} and {assistant, the non-empty tokens of the
\* stream concatenated in arrival order}; while no turn was cut short since
\* the list was last emptied, the history alternates user, assistant and has
\* even length between turns; a pending suggested question replaces the typed
\* input of the run that reads it and is removed by that read.
C10_TurnsAddTwoMessages ==
    [][ /\ C10_State'
        /\ (cpc = "read_input" /\ suggested_input # None) =>
              (user_input' = The(suggested_input) /\ suggested_input' = None) ]_vars

\* a completed turn started by a suggested question that replaced a typed
\* input, after an earlier completed turn, with a two-token answer
C10_Witness ==
    /\ TurnCompleted
    /\ ~dangling
    /\ typed # NoQuestion
    /\ user_input = suggested_questions[1]
    /\ Len(The(messages)) = 4
    /\ full_response = <<"x", "y">>
====
